---- MODULE Spec2Model ----
(***************************************************************************)
(* A model of stock_mail.py: one run of process_and_mail, that is          *)
(* get_stock_data, the cleaning and screening of the data frame, the two   *)
(* calls of generate_styled_table, the assembly of the HTML document and   *)
(* send_email_report with its SMTP session.                                *)
(*                                                                         *)
(* Text cells are sequences of one-character strings.  Numeric cells are   *)
(* records [t, v]: t is "num" (v the value), "nan", "inf" or "ninf".       *)
(* A percentage is held in hundredths of a percent (3.45% is 345), a       *)
(* turnover in hundred millions is held in tenths (5.0 is 50).             *)
(***************************************************************************)
EXTENDS Integers, Sequences, FiniteSets, TLC

VARIABLES pc, resp, df, status, filtered_df, table_volume, table_gain,
          full_html, msg, smtp, log, trace, calls, failed

vars == <<pc, resp, df, status, filtered_df, table_volume, table_gain,
          full_html, msg, smtp, log, trace, calls, failed>>

-----------------------------------------------------------------------------
(* Bounds of the model and constants of the program.                       *)

\* Longest list of freely chosen rows in a fetched dataset.
MaxRows == 2

\* head(20): the number of rows a table keeps.
HeadCount == 20

\* df['漲幅'] > 2.5, in hundredths of a percent.
Threshold == 250

\* val > 5.0 in format_change_color, in hundredths of a percent.
BoldAbove == 500

\* An HTTP status that is OK and one that is not.
HttpOK == 200
HttpServerError == 500

-----------------------------------------------------------------------------
(* Numeric cells.                                                          *)

NaN == [t |-> "nan", v |-> 0]
PosInf == [t |-> "inf", v |-> 0]
NegInf == [t |-> "ninf", v |-> 0]
Num(n) == [t |-> "num", v |-> n]

IsNaN(c) == c.t = "nan"
IsNum(c) == c.t = "num"

\* a > b as floating point compares: false whenever a NaN is involved.
Gt(a, b) ==
  /\ ~IsNaN(a) /\ ~IsNaN(b)
  /\ \/ a.t = "inf" /\ b.t # "inf"
     \/ a.t = "num" /\ b.t = "ninf"
     \/ a.t = "num" /\ b.t = "num" /\ a.v > b.v

\* a == b as floating point compares.
Eq(a, b) == ~IsNaN(a) /\ ~IsNaN(b) /\ a.t = b.t /\ a.v = b.v

\* a - b on parsed cells (finite or NaN).
Sub(a, b) == IF IsNum(a) /\ IsNum(b) THEN Num(a.v - b.v) ELSE NaN

\* n / d rounded to the nearest integer, halves to the even neighbour, as
\* round does on an exact quotient (the error of the floating point division
\* is not modelled).
RoundHalfEven(n, d) ==
  LET nn == IF d < 0 THEN -n ELSE n
      dd == IF d < 0 THEN -d ELSE d
      q == nn \div dd
      r == nn % dd
  IN  IF 2 * r < dd THEN q
      ELSE IF 2 * r > dd THEN q + 1
      ELSE IF q % 2 = 0 THEN q ELSE q + 1

\* ((change / prev) * 100).round(2), in hundredths of a percent.
PercentChange(change, prev) ==
  IF ~IsNum(change) \/ ~IsNum(prev) THEN NaN
  ELSE IF prev.v = 0
       THEN IF change.v > 0 THEN PosInf
            ELSE IF change.v < 0 THEN NegInf ELSE NaN
       ELSE Num(RoundHalfEven(change.v * 10000, prev.v))

\* (turnover / 100000000).round(1), in tenths.
TurnoverYi(turnover) ==
  IF IsNum(turnover) THEN Num(RoundHalfEven(turnover.v, 10000000)) ELSE NaN

-----------------------------------------------------------------------------
(* Text cells and their conversion to numbers.                             *)

Digits == <<"0", "1", "2", "3", "4", "5", "6", "7", "8", "9">>

IsDigit(c) == \E i \in 1..Len(Digits) : Digits[i] = c

DigitVal(c) == (CHOOSE i \in 1..Len(Digits) : Digits[i] = c) - 1

\* response.text.replace('\xa0', ' ') on one cell.
CleanText(s) == [i \in 1..Len(s) |-> IF s[i] = "nbsp" THEN " " ELSE s[i]]

\* .str.replace(',', '')
StripCommas(s) == SelectSeq(s, LAMBDA c : c # ",")

RECURSIVE DigitsValue(_)
DigitsValue(s) ==
  IF s = <<>> THEN 0
  ELSE 10 * DigitsValue(SubSeq(s, 1, Len(s) - 1)) + DigitVal(s[Len(s)])

AllDigits(s) == s # <<>> /\ \A i \in 1..Len(s) : IsDigit(s[i])

\* pd.to_numeric(..., errors='coerce') on one cell of integer text: an
\* optional sign and digits give the number, anything else gives NaN.
ToNumeric(s) ==
  IF AllDigits(s) THEN Num(DigitsValue(s))
  ELSE IF Len(s) > 1 /\ s[1] = "-" /\ AllDigits(Tail(s))
       THEN Num(0 - DigitsValue(Tail(s)))
  ELSE IF Len(s) > 1 /\ s[1] = "+" /\ AllDigits(Tail(s))
       THEN Num(DigitsValue(Tail(s)))
  ELSE NaN

\* pd.to_numeric(df[col].astype(str).str.replace(',', ''), errors='coerce')
CleanNumeric(s) == ToNumeric(StripCommas(s))

\* The decimal digits of a natural number.
RECURSIVE NatText(_)
NatText(n) ==
  IF n < 10 THEN <<Digits[n + 1]>>
  ELSE Append(NatText(n \div 10), Digits[(n % 10) + 1])

\* str(...).strip()
RECURSIVE Strip(_)
Strip(s) ==
  IF s = <<>> THEN s
  ELSE IF s[1] = " " THEN Strip(Tail(s))
  ELSE IF s[Len(s)] = " " THEN Strip(SubSeq(s, 1, Len(s) - 1))
  ELSE s

-----------------------------------------------------------------------------
(* The datasets the data source may answer with.                           *)

\* The columns the run reads: 證券代號, 證券名稱, 成交金額, 收盤價 and
\* 漲跌價差.
AllColumns == {"code", "name", "turnover", "close", "change"}

T500M == <<"5", "0", "0", ",", "0", "0", "0", ",", "0", "0", "0">>
T120M == <<"1", "2", "0", ",", "0", "0", "0", ",", "0", "0", "0">>

\* The securities of the model: name, turnover, close and change as the CSV
\* holds them.
RowKinds == <<
  \* previous close 580, +3.45%
  [name |-> <<"T", "S", "M", "C">>, turnover |-> T500M,
   close |-> <<"6", "0", "0">>, change |-> <<"2", "0">>],
  \* previous close 10, +10.00%; the name holds a non-breaking space
  [name |-> <<"A", "nbsp", "B">>, turnover |-> T120M,
   close |-> <<"1", "1">>, change |-> <<"1">>],
  \* previous close 40, exactly +2.50%
  [name |-> <<"E", "Q">>, turnover |-> T500M,
   close |-> <<"4", "1">>, change |-> <<"1">>],
  \* previous close 0 with a positive change
  [name |-> <<"Z", "P">>, turnover |-> T120M,
   close |-> <<"5">>, change |-> <<"5">>],
  \* a change that is no number
  [name |-> <<"X", "C">>, turnover |-> T500M,
   close |-> <<"6", "0", "0">>, change |-> <<"-", "-">>],
  \* previous close 20, +5.00%, with a turnover that is no number
  [name |-> <<"N", "T">>, turnover |-> <<"-", "-">>,
   close |-> <<"2", "1">>, change |-> <<"1">>],
  \* previous close 12,500, +2.504% before rounding, +2.50% after
  [name |-> <<"R", "D">>, turnover |-> T120M,
   close |-> <<"1", "2", ",", "8", "1", "3">>, change |-> <<"3", "1", "3">>],
  \* previous close 0 with no change
  [name |-> <<"Z", "Z">>, turnover |-> T500M,
   close |-> <<"0">>, change |-> <<"0">>],
  \* an empty close cell
  [name |-> <<"N", "C">>, turnover |-> T120M,
   close |-> <<>>, change |-> <<"2", "0">>]
>>

\* Row number i of a dataset, of kind k: the code is 1100 + i.
RawRow(k, i) ==
  [code |-> NatText(1100 + i), name |-> RowKinds[k].name,
   turnover |-> RowKinds[k].turnover, close |-> RowKinds[k].close,
   change |-> RowKinds[k].change]

\* The lists of kinds of length at most MaxRows.
KindLists == UNION {[1..n -> 1..Len(RowKinds)] : n \in 0..MaxRows}

\* A list of kinds followed by `bulk` more rows of its last kind.
Bulked(ks, bulk) ==
  [i \in 1..(Len(ks) + bulk) |-> IF i <= Len(ks) THEN ks[i] ELSE ks[Len(ks)]]

\* The bodies read_csv accepts: the header's columns and the rows.  A body
\* is a list of at most MaxRows rows, or such a list with HeadCount more
\* rows like its last one.
Tables ==
  { [cols |-> cs, rows |-> [i \in 1..Len(ks) |-> RawRow(ks[i], i)]] :
      cs \in {AllColumns, AllColumns \ {"turnover"}, AllColumns \ {"code"}},
      ks \in KindLists \cup {Bulked(l, HeadCount) : l \in KindLists \ {<<>>}} }

\* What the data source may answer: no answer at all (requests.get raises),
\* or a response with a status and a body that read_csv rejects (csv FALSE)
\* or accepts.
NoBody == [csv |-> FALSE, cols |-> {}, rows |-> <<>>]

\* The exceptions requests.get raises.
TransportErrors == {"ConnectionError", "Timeout", "SSLError"}

Responses ==
  { [kind |-> "transport_error", error |-> e, status |-> 0, body |-> NoBody] :
      e \in TransportErrors }
  \cup
  { [kind |-> "response", error |-> "", status |-> st, body |-> b] :
      st \in {HttpOK, HttpServerError},
      b \in {NoBody} \cup
            {[csv |-> TRUE, cols |-> t.cols, rows |-> t.rows] : t \in Tables} }

-----------------------------------------------------------------------------
(* The data frame.                                                         *)

\* df is None.
NoneDF == [present |-> FALSE, cols |-> {}, rows |-> <<>>]

CleanRow(r) ==
  [code |-> CleanText(r.code), name |-> CleanText(r.name),
   turnover |-> CleanText(r.turnover), close |-> CleanText(r.close),
   change |-> CleanText(r.change)]

\* pd.read_csv(io.StringIO(clean_text)) on an accepted body.
ReadCsv(body) ==
  [present |-> TRUE, cols |-> body.cols,
   rows |-> [i \in 1..Len(body.rows) |-> CleanRow(body.rows[i])]]

\* What get_stock_data returns for an answer of the data source: the status
\* of the response is not looked at.
GetStockDataResult(r) ==
  IF r.kind = "transport_error"
    THEN [df |-> NoneDF, status |-> r.error]
  ELSE IF ~r.body.csv
    THEN [df |-> NoneDF, status |-> "ParserError"]
  ELSE [df |-> ReadCsv(r.body), status |-> "OK"]

\* NoData with the test for None forgotten.
NoDataEmptyOnly(d) == d.present /\ d.rows = <<>>

\* df is None or df.empty
NoData(d) == ~d.present \/ d.rows = <<>>

\* The three cleaned columns and the three derived ones of one row.
NormalizeRow(r) ==
  LET turnover == CleanNumeric(r.turnover)
      close == CleanNumeric(r.close)
      change == CleanNumeric(r.change)
      prev == Sub(close, change)
  IN  [code |-> r.code, name |-> r.name, turnover |-> turnover,
       close |-> close, change |-> change, prev |-> prev,
       pct |-> PercentChange(change, prev), yi |-> TurnoverYi(turnover)]

NormalizeRows(rows) == [i \in 1..Len(rows) |-> NormalizeRow(rows[i])]

\* df[col] raises for a column the header lacks (or for df None).
NormalizeRaises(d) ==
  ~d.present \/ ~({"turnover", "close", "change"} \subseteq d.cols)

\* Screen with >= in place of >.
ScreenAtLeast(rows) ==
  SelectSeq(rows, LAMBDA r : Gt(r.pct, Num(Threshold))
                             \/ Eq(r.pct, Num(Threshold)))

\* df[df['漲幅'] > 2.5]
Screen(rows) == SelectSeq(rows, LAMBDA r : Gt(r.pct, Num(Threshold)))

-----------------------------------------------------------------------------
(* generate_styled_table                                                   *)

SortKey(r, sort_by) == IF sort_by = "turnover" THEN r.turnover ELSE r.pct

\* The two orders the model gives rows of equal key, the one of the input
\* and the opposite one: sort_values is called with its default kind,
\* quicksort, which promises no order among them.
TieOrders == {"input", "reversed"}

\* r, which follows every row of `sorted` in the input, put in its place.
InsertDesc(sorted, r, sort_by, tie) ==
  LET before ==
        {i \in 1..Len(sorted) :
            \/ Gt(SortKey(sorted[i], sort_by), SortKey(r, sort_by))
            \/ tie = "input"
               /\ ~Gt(SortKey(r, sort_by), SortKey(sorted[i], sort_by))}
      n == Cardinality(before)
  IN  SubSeq(sorted, 1, n) \o <<r>> \o SubSeq(sorted, n + 1, Len(sorted))

RECURSIVE SortDesc(_, _, _)
SortDesc(rows, sort_by, tie) ==
  IF rows = <<>> THEN <<>>
  ELSE InsertDesc(SortDesc(SubSeq(rows, 1, Len(rows) - 1), sort_by, tie),
                  rows[Len(rows)], sort_by, tie)

\* sort_values(by=sort_by, ascending=False): the rows whose key is a number
\* or an infinity in descending order, then the rows whose key is NaN in
\* their input order.
SortValues(rows, sort_by, tie) ==
  SortDesc(SelectSeq(rows, LAMBDA r : ~IsNaN(SortKey(r, sort_by))),
           sort_by, tie)
  \o SelectSeq(rows, LAMBDA r : IsNaN(SortKey(r, sort_by)))

\* .head(20)
HeadRows(rows) ==
  SubSeq(rows, 1, IF Len(rows) < HeadCount THEN Len(rows) ELSE HeadCount)

\* create_link: the anchor to the quote page of the code, around the name.
CreateLink(r) ==
  <<"<a href=\"https://tw.stock.yahoo.com/quote/">> \o Strip(r.code)
  \o <<"\" style=\"...\">">> \o r.name \o <<"</a>">>

TwoDigits(n) == <<Digits[(n \div 10) + 1], Digits[(n % 10) + 1]>>

\* f'{val:.2f}%'
Fixed2Percent(val) ==
  CASE val.t = "num" ->
         LET a == IF val.v < 0 THEN 0 - val.v ELSE val.v
         IN  (IF val.v < 0 THEN <<"-">> ELSE <<>>)
             \o NatText(a \div 100) \o <<".">> \o TwoDigits(a % 100)
             \o <<"%">>
    [] val.t = "inf" -> <<"i", "n", "f", "%">>
    [] val.t = "ninf" -> <<"-", "i", "n", "f", "%">>
    [] OTHER -> <<"n", "a", "n", "%">>

\* format_change_color: a span, bold and brighter above 5.0.
FormatChangeColor(val) ==
  [t |-> "str", v |-> 0, tag |-> "span",
   color |-> IF Gt(val, Num(BoldAbove)) THEN "#FF0000" ELSE "#D20000",
   weight |-> IF Gt(val, Num(BoldAbove)) THEN "bold" ELSE "normal",
   text |-> Fixed2Percent(val)]

\* One row of temp_df after the two display columns are written, cut to the
\* five columns of the table.
DisplayRow(r) ==
  [code |-> r.code, name |-> CreateLink(r), close |-> r.close,
   pct |-> FormatChangeColor(r.pct), yi |-> r.yi]

\* temp_df of generate_styled_table(data_df, sort_by): sorted, cut to 20
\* rows, copied.
RankedView(rows, sort_by, tie) == HeadRows(SortValues(rows, sort_by, tie))

\* The table generate_styled_table returns.
StyledTable(rows, sort_by, tie) ==
  LET temp_df == RankedView(rows, sort_by, tie)
  IN  [i \in 1..Len(temp_df) |-> DisplayRow(temp_df[i])]

\* FrameAfterTable with the display columns written to data_df itself.
FrameAfterTableInPlace(rows, sort_by, tie) ==
  [i \in 1..Len(rows) |->
     [rows[i] EXCEPT !.name = CreateLink(rows[i]),
                     !.pct = FormatChangeColor(rows[i].pct)]]

\* data_df after generate_styled_table(data_df, sort_by): temp_df is a copy,
\* the display columns are written to the copy alone.
FrameAfterTable(rows, sort_by, tie) == rows

\* TableRaises with an empty frame refused as well.
TableRaisesOnEmpty(cols, rows) == "code" \notin cols \/ rows = <<>>

\* generate_styled_table raises when the code column is missing (in
\* create_link, or in the selection of the five columns).
TableRaises(cols, rows) == "code" \notin cols

-----------------------------------------------------------------------------
(* The run.                                                                *)

NoTable == <<>>
NoHtml == <<>>
NoMsg == <<>>

\* The stages of a run, in the order of the pipeline.
StageOrder ==
  <<"fetched", "parsed", "normalized", "screened", "ranked", "rendered",
    "delivered">>

\* ProcessHandles with except KeyError in place of except Exception.
ProcessHandlesKeyErrorOnly(exc) == exc = "KeyError"

\* except Exception as e, in process_and_mail: every exception is handled.
ProcessHandles(exc) == TRUE

\* except Exception as e, in send_email_report: every exception is handled.
SendHandles(exc) == TRUE

\* AfterMailFailure with the session opened again for another try.
AfterMailFailureRetry == "connect"

\* Where the run goes once send_email_report has printed a failure: the
\* function returns and process_and_mail ends.
AfterMailFailure == "done"

Init ==
  /\ pc = "start"
  /\ resp = [kind |-> "none", error |-> "", status |-> 0]
  /\ df = NoneDF
  /\ status = ""
  /\ filtered_df = <<>>
  /\ table_volume = NoTable
  /\ table_gain = NoTable
  /\ full_html = NoHtml
  /\ msg = NoMsg
  /\ smtp = "none"
  /\ log = <<>>
  /\ trace = <<>>
  /\ calls = [get_stock_data |-> 0, send_email_report |-> 0, SMTP |-> 0,
              send_message |-> 0]
  /\ failed = "none"

\* An exception raised inside the try block of process_and_mail.
RaiseInProcess(exc, stage) ==
  /\ failed' = stage
  /\ IF ProcessHandles(exc)
       THEN /\ pc' = "done"
            /\ log' = Append(log, [kind |-> "processing_error", cause |-> exc])
       ELSE /\ pc' = "crashed"
            /\ log' = log

\* An exception raised inside the try block of send_email_report.
RaiseInSend(exc) ==
  /\ failed' = "delivery"
  /\ IF SendHandles(exc)
       THEN /\ pc' = AfterMailFailure
            /\ log' = Append(log, [kind |-> "mail_failed", cause |-> exc])
       ELSE RaiseInProcess(exc, "delivery")

\* df, status = get_stock_data()
GetStockData ==
  /\ pc = "start"
  /\ \E r \in Responses :
       LET res == GetStockDataResult(r)
       IN  /\ resp' = [kind |-> r.kind, error |-> r.error,
                       status |-> r.status]
           /\ df' = res.df
           /\ status' = res.status
           /\ trace' = IF r.kind = "transport_error" THEN trace
                       ELSE IF ~res.df.present THEN Append(trace, "fetched")
                       ELSE trace \o <<"fetched", "parsed">>
           /\ failed' = IF r.kind = "transport_error" THEN "fetch"
                        ELSE IF ~res.df.present THEN "parse" ELSE "none"
  /\ calls' = [calls EXCEPT !.get_stock_data = @ + 1]
  /\ pc' = "check"
  /\ UNCHANGED <<filtered_df, table_volume, table_gain, full_html, msg, smtp,
                 log>>

\* if df is None or df.empty: print, return
CheckData ==
  /\ pc = "check"
  /\ IF NoData(df)
       THEN /\ log' = Append(log, [kind |-> "no_data", cause |-> status])
            /\ pc' = "done"
       ELSE /\ log' = log
            /\ pc' = "normalize"
  /\ UNCHANGED <<resp, df, status, filtered_df, table_volume, table_gain,
                 full_html, msg, smtp, trace, calls, failed>>

\* 1. the cleaning of the three columns and the derived columns
Normalize ==
  /\ pc = "normalize"
  /\ IF NormalizeRaises(df)
       THEN /\ RaiseInProcess(IF df.present THEN "KeyError" ELSE "TypeError",
                              "normalize")
            /\ UNCHANGED <<df, trace>>
       ELSE /\ df' = [df EXCEPT !.rows = NormalizeRows(df.rows)]
            /\ trace' = Append(trace, "normalized")
            /\ pc' = "screen"
            /\ UNCHANGED <<log, failed>>
  /\ UNCHANGED <<resp, status, filtered_df, table_volume, table_gain,
                 full_html, msg, smtp, calls>>

\* 2. filtered_df = df[df['漲幅'] > 2.5].copy()
ScreenRows ==
  /\ pc = "screen"
  /\ filtered_df' = Screen(df.rows)
  /\ trace' = Append(trace, "screened")
  /\ pc' = "table_volume"
  /\ UNCHANGED <<resp, df, status, table_volume, table_gain, full_html, msg,
                 smtp, log, calls, failed>>

\* table_volume = generate_styled_table(filtered_df, '成交金額')
TableVolume ==
  /\ pc = "table_volume"
  /\ IF TableRaises(df.cols, filtered_df)
       THEN /\ RaiseInProcess("KeyError", "rank")
            /\ UNCHANGED <<filtered_df, table_volume>>
       ELSE \E tie \in TieOrders :
              /\ table_volume' = <<StyledTable(filtered_df, "turnover", tie)>>
              /\ filtered_df' = FrameAfterTable(filtered_df, "turnover", tie)
              /\ pc' = "table_gain"
              /\ UNCHANGED <<log, failed>>
  /\ UNCHANGED <<resp, df, status, table_gain, full_html, msg, smtp, trace,
                 calls>>

\* table_gain = generate_styled_table(filtered_df, '漲幅')
TableGain ==
  /\ pc = "table_gain"
  /\ IF TableRaises(df.cols, filtered_df)
       THEN /\ RaiseInProcess("KeyError", "rank")
            /\ UNCHANGED <<filtered_df, table_gain, trace>>
       ELSE \E tie \in TieOrders :
              /\ table_gain' = <<StyledTable(filtered_df, "pct", tie)>>
              /\ filtered_df' = FrameAfterTable(filtered_df, "pct", tie)
              /\ trace' = Append(trace, "ranked")
              /\ pc' = "html"
              /\ UNCHANGED <<log, failed>>
  /\ UNCHANGED <<resp, df, status, table_volume, full_html, msg, smtp, calls>>

\* 5. full_html: the style, the date and the two tables
AssembleHtml ==
  /\ pc = "html"
  /\ full_html' = <<[date |-> "today", volume |-> table_volume[1],
                     gain |-> table_gain[1]]>>
  /\ trace' = Append(trace, "rendered")
  /\ pc' = "message"
  /\ UNCHANGED <<resp, df, status, filtered_df, table_volume, table_gain, msg,
                 smtp, log, calls, failed>>

\* send_email_report, up to its try: the message is built.  These lines are
\* inside the try block of process_and_mail alone.
BuildMessage ==
  /\ pc = "message"
  /\ calls' = [calls EXCEPT !.send_email_report = @ + 1]
  /\ \E ok \in BOOLEAN :
       IF ok
         THEN /\ msg' = <<[subject |-> "today", subtype |-> "html",
                           charset |-> "utf-8", payload |-> full_html[1]]>>
              /\ pc' = "connect"
              /\ UNCHANGED <<log, failed>>
         ELSE /\ RaiseInProcess("Exception", "message")
              /\ UNCHANGED msg
  /\ UNCHANGED <<resp, df, status, filtered_df, table_volume, table_gain,
                 full_html, smtp, trace>>

\* server = smtplib.SMTP('smtp.gmail.com', 587): a failure leaves no session.
Connect ==
  /\ pc = "connect"
  /\ calls' = [calls EXCEPT !.SMTP = @ + 1]
  /\ \E ok \in BOOLEAN :
       IF ok
         THEN /\ smtp' = "open"
              /\ pc' = "starttls"
              /\ UNCHANGED <<log, failed>>
         ELSE /\ RaiseInSend("OSError")
              /\ UNCHANGED smtp
  /\ UNCHANGED <<resp, df, status, filtered_df, table_volume, table_gain,
                 full_html, msg, trace>>

\* A command of the session: it succeeds, or the server refuses it (the
\* session stays open), or the connection is lost (smtplib closes it).
Command(at, next) ==
  /\ pc = at
  /\ \E out \in {"ok", "refused", "disconnected"} :
       IF out = "ok"
         THEN /\ pc' = next
              /\ UNCHANGED <<smtp, log, failed>>
         ELSE /\ RaiseInSend(IF out = "refused" THEN "SMTPResponseException"
                             ELSE "SMTPServerDisconnected")
              /\ smtp' = IF out = "refused" THEN smtp ELSE "closed"

\* server.starttls()
StartTls ==
  /\ Command("starttls", "login")
  /\ UNCHANGED <<resp, df, status, filtered_df, table_volume, table_gain,
                 full_html, msg, trace, calls>>

\* server.login(SENDER_EMAIL, APP_PASSWORD)
Login ==
  /\ Command("login", "send")
  /\ UNCHANGED <<resp, df, status, filtered_df, table_volume, table_gain,
                 full_html, msg, trace, calls>>

\* server.send_message(msg)
SendMessage ==
  /\ Command("send", "quit")
  /\ calls' = [calls EXCEPT !.send_message = @ + 1]
  /\ trace' = IF pc' = "quit" THEN Append(trace, "delivered") ELSE trace
  /\ UNCHANGED <<resp, df, status, filtered_df, table_volume, table_gain,
                 full_html, msg>>

\* server.quit() and the print of the success: quit closes the session
\* whether or not the server answers it.
Quit ==
  /\ pc = "quit"
  /\ smtp' = "closed"
  /\ \E ok \in BOOLEAN :
       IF ok
         THEN /\ log' = Append(log, [kind |-> "mail_ok", cause |-> ""])
              /\ pc' = "done"
              /\ UNCHANGED failed
         ELSE RaiseInSend("SMTPServerDisconnected")
  /\ UNCHANGED <<resp, df, status, filtered_df, table_volume, table_gain,
                 full_html, msg, trace, calls>>

Next ==
  \/ GetStockData
  \/ CheckData
  \/ Normalize
  \/ ScreenRows
  \/ TableVolume
  \/ TableGain
  \/ AssembleHtml
  \/ BuildMessage
  \/ Connect
  \/ StartTls
  \/ Login
  \/ SendMessage
  \/ Quit

Spec == Init /\ [][Next]_vars

-----------------------------------------------------------------------------
(* Properties.                                                             *)

Range(s) == {s[i] : i \in 1..Len(s)}

\* a <= b as floating point compares.
Le(a, b) == Gt(b, a) \/ Eq(a, b)

\* The screened set has been built.
Screened == Len(trace) >= 4

\* C1: a run whose fetch ends in a transport error, whichever error it is,
\* is a fetch failure: it stops at the check of the data with the message
\* of the missing data, no table and no document is rendered and
\* send_email_report is never called.
C1_TransportErrorAbortsRun ==
  resp.kind = "transport_error" =>
    /\ ~df.present
    /\ pc \in {"check", "done"}
    /\ table_volume = NoTable /\ table_gain = NoTable /\ full_html = NoHtml
    /\ calls.send_email_report = 0 /\ calls.SMTP = 0
    /\ calls.send_message = 0
    /\ smtp = "none"
    /\ pc = "done" => log = <<[kind |-> "no_data", cause |-> resp.error]>>

C1_Witness == resp.kind = "transport_error" /\ pc = "done"

\* C2: the screened set is made of rows of the data frame, each with a
\* percent_change that is not NaN and compares greater than 2.5; every row
\* of the data frame left out has a NaN percent_change or one that is at
\* most 2.5.
C2_ScreenedAboveThreshold ==
  Screened =>
    /\ \A i \in 1..Len(filtered_df) : filtered_df[i] \in Range(df.rows)
    /\ \A i \in 1..Len(filtered_df) :
         /\ ~IsNaN(filtered_df[i].pct)
         /\ Gt(filtered_df[i].pct, Num(Threshold))
    /\ \A j \in 1..Len(df.rows) :
         df.rows[j] \notin Range(filtered_df) =>
           IsNaN(df.rows[j].pct) \/ Le(df.rows[j].pct, Num(Threshold))

\* A row at exactly 2.5 is left out while another row is kept.
C2_Witness ==
  /\ Screened
  /\ filtered_df # <<>>
  /\ \E j \in 1..Len(df.rows) :
       /\ Eq(df.rows[j].pct, Num(Threshold))
       /\ df.rows[j] \notin Range(filtered_df)

\* C3: a row whose previous close is zero, or whose close or change did not
\* parse, has an unknown (NaN) percent_change and is not in the screened
\* set.
C3_UnknownNeverScreened ==
  Screened =>
    \A j \in 1..Len(df.rows) :
      (\/ IsNaN(df.rows[j].close)
       \/ IsNaN(df.rows[j].change)
       \/ Eq(df.rows[j].prev, Num(0)))
      => /\ IsNaN(df.rows[j].pct)
         /\ df.rows[j] \notin Range(filtered_df)

\* The row of the screened set a row of a table shows, and its place there
\* (the codes of a dataset are distinct).
ScreenedIndex(code) ==
  CHOOSE i \in 1..Len(filtered_df) : filtered_df[i].code = code

ViewKey(table, i, sort_by) ==
  SortKey(filtered_df[ScreenedIndex(table[i].code)], sort_by)

\* A table is a ranked view of the screened set by sort_by: it shows rows of
\* the screened set, min(20, size) of them, in non-increasing order of the
\* key with the rows of unknown key last, no row left out has a larger key
\* than a row shown, and rows of equal key are in their input order.
IsStableRankedView(table, sort_by) ==
  /\ \A i \in 1..Len(table) :
       \E j \in 1..Len(filtered_df) : filtered_df[j].code = table[i].code
  /\ Len(table) =
       (IF Len(filtered_df) < HeadCount THEN Len(filtered_df) ELSE HeadCount)
  /\ \A i, j \in 1..Len(table) :
       i < j =>
         /\ ~Gt(ViewKey(table, j, sort_by), ViewKey(table, i, sort_by))
         /\ IsNaN(ViewKey(table, i, sort_by))
              => IsNaN(ViewKey(table, j, sort_by))
  /\ \A i \in 1..Len(table), j \in 1..Len(filtered_df) :
       (\A k \in 1..Len(table) : table[k].code # filtered_df[j].code)
         => ~Gt(SortKey(filtered_df[j], sort_by), ViewKey(table, i, sort_by))
  /\ \A i, j \in 1..Len(table) :
       (i < j /\ Eq(ViewKey(table, i, sort_by), ViewKey(table, j, sort_by)))
         => ScreenedIndex(table[i].code) < ScreenedIndex(table[j].code)

\* C4: each table generate_styled_table returns is ordered non-increasing
\* by its sort key, holds at most 20 rows (all of a smaller screened set),
\* holds the 20 largest by key, and keeps rows of equal key in their input
\* order.
C4_RankedViewsStable ==
  /\ table_volume # NoTable => IsStableRankedView(table_volume[1], "turnover")
  /\ table_gain # NoTable => IsStableRankedView(table_gain[1], "pct")

\* The screened set of a well-formed, non-empty dataset is empty.
EmptyScreenedSet ==
  /\ Screened
  /\ df.cols = AllColumns
  /\ df.rows # <<>>
  /\ filtered_df = <<>>

EmptyHtml == [date |-> "today", volume |-> <<>>, gain |-> <<>>]

\* C5: with a non-empty dataset and an empty screened set, ranking and
\* rendering do not fail (no failure comes from there and none is logged
\* for them): both tables are built empty, the document with the empty
\* tables is assembled and handed to send_email_report, and when the
\* message is built and sent the run ends with the message of success as
\* its whole log.
C5_EmptyScreenedSetStillReports ==
  EmptyScreenedSet =>
    /\ failed \in {"none", "message", "delivery"}
    /\ pc \notin {"table_volume", "crashed"} => table_volume = <<(<<>>)>>
    /\ pc \notin {"table_volume", "table_gain", "crashed"}
         => table_gain = <<(<<>>)>>
    /\ pc \notin {"table_volume", "table_gain", "html", "crashed"}
         => full_html = <<EmptyHtml>>
    /\ pc = "done" =>
         /\ calls.send_email_report = 1
         /\ failed # "message" => msg # NoMsg /\ msg[1].payload = EmptyHtml
         /\ failed = "none" =>
              /\ log = <<[kind |-> "mail_ok", cause |-> ""]>>
              /\ calls.send_message = 1

C5_Witness ==
  /\ EmptyScreenedSet
  /\ pc = "done"
  /\ failed = "none"
  /\ log = <<[kind |-> "mail_ok", cause |-> ""]>>

\* C6: no run ends with a mail session that was opened and not closed.
C6_SessionReleased == pc \in {"done", "crashed"} => smtp # "open"

FailureKinds == {"no_data", "processing_error", "mail_failed"}

\* C7: no exception leaves process_and_mail, and a run in which a stage
\* failed ends normally with a failure message as the last line logged.
C7_FailuresLoggedNoCrash ==
  /\ pc # "crashed"
  /\ failed # "none" =>
       /\ pc \in {"check", "done"}
       /\ pc = "check" => failed \in {"fetch", "parse"}
       /\ pc = "done" => /\ log # <<>>
                         /\ log[Len(log)].kind \in FailureKinds

\* The message could not be built: the exception is raised outside the try
\* block of send_email_report.
C7_Witness ==
  /\ failed = "message"
  /\ pc = "done"
  /\ log = <<[kind |-> "processing_error", cause |-> "Exception"]>>

\* C8: a response with a status that is not OK is a fetch failure: its body
\* is not read as a dataset, nothing is rendered, send_email_report is not
\* called and the run ends with the message of the missing data.
C8_NonOkResponseIsFetchFailure ==
  (resp.kind = "response" /\ resp.status # HttpOK) =>
    /\ ~df.present
    /\ \A i \in 1..Len(trace) : trace[i] # "parsed"
    /\ table_volume = NoTable /\ table_gain = NoTable /\ full_html = NoHtml
    /\ calls.send_email_report = 0 /\ calls.send_message = 0
    /\ pc = "done" => /\ Len(log) = 1
                      /\ log[1].kind = "no_data"

\* The stages completed when a stage fails.
StagesBeforeFailure ==
  CASE failed = "fetch" -> {0}
    [] failed = "parse" -> {1}
    [] failed = "normalize" -> {2}
    [] failed = "rank" -> {4}
    [] failed = "message" -> {6}
    [] failed = "delivery" -> {6, 7}
    [] OTHER -> 0..Len(StageOrder)

\* C9: the stages of a run are completed in the order of the pipeline,
\* each at most once; the data is fetched at most once, the session is
\* opened at most once and the message is sent at most once, after every
\* earlier stage; once a stage has failed no later stage is completed, and
\* nothing is sent after a failure before the delivery.
C9_StagesInOrderNoRetry ==
  /\ Len(trace) <= Len(StageOrder)
  /\ \A i \in 1..Len(trace) : trace[i] = StageOrder[i]
  /\ calls.get_stock_data <= 1
  /\ calls.send_email_report <= 1
  /\ calls.SMTP <= 1
  /\ calls.send_message <= 1
  /\ calls.SMTP = 1 => Len(trace) >= 6
  /\ calls.send_message = 1 => Len(trace) >= 6
  /\ failed # "none" =>
       /\ Len(trace) \in StagesBeforeFailure
       /\ pc \in {"check", "done"}
       /\ failed # "delivery" =>
            /\ calls.send_message = 0
            /\ calls.SMTP = 0
            /\ smtp = "none"

\* A dataset without the turnover column: the run ends at the cleaning.
C9_Witness ==
  /\ failed = "normalize"
  /\ pc = "done"
  /\ trace = <<"fetched", "parsed">>
  /\ df.rows # <<>>

\* Two frames hold the same rows in the same order: the same codes, the
\* same plain names, the same numeric percent_change and turnover.
SameRows(a, b) ==
  /\ Len(a) = Len(b)
  /\ \A i \in 1..Len(a) :
       /\ a[i].code = b[i].code
       /\ a[i].name = b[i].name
       /\ a[i].pct.t = b[i].pct.t /\ a[i].pct.v = b[i].pct.v
       /\ a[i].turnover = b[i].turnover

\* C10: the call of generate_styled_table for the first table leaves the
\* screened set as the screening built it, and so does the second; the
\* second table, when it has just been built, is a ranked view by
\* percent_change of the screened set as the screening built it (no later
\* step writes the table or the frames).
C10_TablesLeaveScreenedSet ==
  /\ (Screened /\ pc # "crashed") => SameRows(filtered_df, Screen(df.rows))
  /\ pc = "html" =>
       table_gain[1] \in
         {StyledTable(Screen(df.rows), "pct", tie) : tie \in TieOrders}

C10_Witness ==
  /\ pc = "html"
  /\ Len(filtered_df) >= 2
  /\ Len(table_volume[1]) >= 2
  /\ table_volume[1] # table_gain[1]

====
